---------------------------- MODULE Spec2Model ----------------------------
(***************************************************************************)
(* A model of chip8.py: the CHIP-8 interpreter C8Computer, its display    *)
(* C8Screen, and the scheduler loop of main().                            *)
(*                                                                         *)
(* Time is wall-clock time in microseconds since the scheduler loop was   *)
(* entered.  Python's None is the value None (-1), which is no key and no *)
(* time.  An exception raised by an instruction is recorded in `exc` and  *)
(* ends the run, as main() re-raises it.                                   *)
(*                                                                         *)
(* The byte arrays RAM (4096 bytes) and vram (64 x 32 cells) are kept as  *)
(* functions on the indices whose element is not 0; Peek reads an element *)
(* of the whole array and Poke writes one.                                 *)
(***************************************************************************)
EXTENDS Integers, Sequences, FiniteSets, TLC

\* ------------------------------------------------------------------ bounds
\* Keys 0..MaxKey of the 16-key pad take part in key events.
MaxKey == 1
\* The clock is advanced at most MaxAdvances times in one behaviour.
MaxAdvances == 6
\* Sprites of 0..MaxRows rows are drawn.
MaxRows == 2
\* Instructions executed in a row by Run.
MaxSteps == 5

\* ------------------------------------------------------- program constants
None == -1
RamSize == 4096
ProgramStart == 512
LastFetch == 4094
xsize == 64
ysize == 32
TickMicros == 16666
MicrosPerSecond == 1000000
INSTRUCTION_DELAY == 1
UNMAPPED == 16

Keys == 0..MaxKey

\* ------------------------------------------------------------ bit helpers
\* a & b, a | b and a ^ b on naturals below 2^16, bit by bit.
RECURSIVE BitAnd(_, _)
BitAnd(a, b) ==
    IF a = 0 \/ b = 0 THEN 0
    ELSE (a % 2) * (b % 2) + 2 * BitAnd(a \div 2, b \div 2)

RECURSIVE BitOr(_, _)
BitOr(a, b) ==
    IF a = 0 THEN b
    ELSE IF b = 0 THEN a
    ELSE (IF a % 2 = 1 \/ b % 2 = 1 THEN 1 ELSE 0) + 2 * BitOr(a \div 2, b \div 2)

RECURSIVE BitXor(_, _)
BitXor(a, b) ==
    IF a = 0 THEN b
    ELSE IF b = 0 THEN a
    ELSE ((a + b) % 2) + 2 * BitXor(a \div 2, b \div 2)

\* a >> k and a << k
Shr(a, k) == a \div (2 ^ k)
Shl(a, k) == a * (2 ^ k)

\* timedelta.microseconds of the difference of two times: the microsecond
\* component only, whole seconds are not part of it.
microseconds(later, earlier) == (later - earlier) % MicrosPerSecond

\* ---------------------------------------------------------------- the font
font ==
    << 240, 144, 144, 144, 240,
        32,  96,  32,  32, 112,
       240,  16, 240, 128, 240,
       240,  16, 240,  16, 240,
       144, 144, 240,  16,  16,
       240, 128, 240,  16, 240,
       240, 128, 240, 144, 240,
       240,  16,  32,  64,  64,
       240, 144, 240, 144, 240,
       240, 144, 240,  16, 240,
       240, 144, 240, 144, 144,
       224, 144, 224, 144, 224,
       240, 128, 128, 128, 240,
       224, 144, 144, 144, 224,
       240, 128, 240, 128, 240,
       240, 128, 240, 128, 128 >>

\* ------------------------------------------------------------- byte arrays
\* array('B', [0 for i in range(size)])
NewArray == [i \in {} |-> 0]

\* arr[i], for an index of the array
Peek(arr, i) == IF i \in DOMAIN arr THEN arr[i] ELSE 0

\* arr[i] = val
Poke(arr, i, val) ==
    [j \in (IF val = 0 THEN DOMAIN arr \ {i} ELSE DOMAIN arr \cup {i}) |->
        IF j = i THEN val ELSE arr[j]]

\* arr[start + k] = bytes[k] for every k in range(len(bytes))
Store(arr, start, bytes) ==
    LET span == start..(start + Len(bytes) - 1)
        val(j) == IF j \in span THEN bytes[j - start + 1] ELSE arr[j]
    IN  [j \in {j \in DOMAIN arr \cup span : val(j) # 0} |-> val(j)]

\* load_font_sprites: RAM[i] = font[i] for i in range(80)
load_font_sprites(ram) == Store(ram, 0, font)

\* RAM as C8Computer.__init__ leaves it.
InitialRAM == load_font_sprites(NewArray)

\* load_rom: the bytes of a ROM placed from 0x200 on.
load_rom(ram, rom) == Store(ram, ProgramStart, rom)

\* -------------------------------------------------------------- variables
VARIABLES
    RAM, V, I, PC, stack,
    delay_register, delay_register_last_tick_time,
    sound_register, sound_register_last_tick_time,
    key_pressed, blocking_on_fx0a, fx0a_key_pressed, fx0a_key_up,
    vram, needs_draw,
    beep_playing,
    SHIFT_VY_8XY6_8XYE, INCREMENT_I_FX55_FX65,
    run, exc, exc_opcode, now, last_instruction_time, num_instr,
    keys_held, advances,
    init, pending, wait_first_down, wait_downs, wait_released,
    sound_set_time, sound_set_value, stops_since_set,
    flips, decays

machine == << RAM, V, I, PC, stack,
              delay_register, delay_register_last_tick_time,
              sound_register, sound_register_last_tick_time,
              key_pressed, blocking_on_fx0a, fx0a_key_pressed, fx0a_key_up,
              vram, needs_draw, beep_playing >>
quirks == << SHIFT_VY_8XY6_8XYE, INCREMENT_I_FX55_FX65 >>
\* History, read by no action: the state execution began in; the key events
\* observed since the current Fx0A wait began (the first key to go down, the
\* keys that went down, the keys that went down and then up); the time and
\* value of the latest Fx18 and the beep.stop() calls since; the calls not
\* yet returned from, each with its address and the stack depth before it;
\* the pygame.display.flip() calls of the scheduler pass that executed the
\* latest instruction, and the timer events that lowered a timer since.
ghost == << init, pending, wait_first_down, wait_downs, wait_released,
            sound_set_time, sound_set_value, stops_since_set, flips, decays >>
pass_ghost == << flips, decays >>
wait_ghost == << wait_first_down, wait_downs, wait_released >>
sound_ghost == << sound_set_time, sound_set_value, stops_since_set >>
vars == << machine, quirks, run, exc, exc_opcode, now, last_instruction_time, num_instr,
           keys_held, advances, ghost >>

\* The interpreter, its screen and its beeper as one record, with the clock
\* (`clock`) and the quirk flags the handlers read.  `increment_pc` is a
\* handler's return value, `raised` the exception it ended in, `stops` the
\* number of beep.stop() calls made, `flips` the number of
\* pygame.display.flip() calls made, `rand` what random.randrange returns.
Self ==
    [ RAM |-> RAM, V |-> V, I |-> I, PC |-> PC, stack |-> stack,
      delay_register |-> delay_register,
      delay_register_last_tick_time |-> delay_register_last_tick_time,
      sound_register |-> sound_register,
      sound_register_last_tick_time |-> sound_register_last_tick_time,
      key_pressed |-> key_pressed,
      blocking_on_fx0a |-> blocking_on_fx0a,
      fx0a_key_pressed |-> fx0a_key_pressed,
      fx0a_key_up |-> fx0a_key_up,
      vram |-> vram, needs_draw |-> needs_draw,
      beep_playing |-> beep_playing,
      shift_vy |-> SHIFT_VY_8XY6_8XYE,
      increment_i |-> INCREMENT_I_FX55_FX65,
      clock |-> now, rand |-> 0,
      increment_pc |-> TRUE, raised |-> "None", raised_opcode |-> None,
      stops |-> 0, flips |-> 0 ]

Return(m, inc) == [m EXCEPT !.increment_pc = inc]
Raise(m, e) == [m EXCEPT !.raised = e, !.increment_pc = FALSE]
\* raise InvalidOpCodeException(opcode)
RaiseInvalid(m, opcode) ==
    [Raise(m, "InvalidOpCodeException") EXCEPT !.raised_opcode = opcode]


SetV(m, r, val) == [m EXCEPT !.V[r] = val]

\* ------------------------------------------------------------ C8Screen
\* C8Screen.draw: presents the buffer and clears needs_draw.
draw(m) == [m EXCEPT !.needs_draw = FALSE, !.flips = @ + 1]

\* C8Screen.clear
\* vram[i] = val for every i in range(xsize * ysize)
Fill(val) == [c \in (IF val = 0 THEN {} ELSE 0..(xsize * ysize - 1)) |-> val]

clear(m) == draw([m EXCEPT !.vram = Fill(0)])

\* Bit i (0 = leftmost) of a sprite byte: (val << i) & 0x80.
SpriteBit(val, i) == BitAnd(Shl(val, i), 128) # 0

\* C8Screen.xor8px: the new buffer and the value returned, "None" for a row
\* below the screen.
\* Xor8Loop leaving a lit cell lit (OR in place of XOR).
RECURSIVE Xor8Loop_Or(_, _, _, _, _, _)
Xor8Loop_Or(cells, vramcell, val, i, numpx, collision) ==
    IF i = numpx THEN [vram |-> cells, collision |-> collision]
    ELSE IF SpriteBit(val, i)
    THEN IF Peek(cells, vramcell) = 1
         THEN Xor8Loop_Or(cells, vramcell + 1, val, i + 1, numpx, TRUE)
         ELSE Xor8Loop_Or(Poke(cells, vramcell, 1), vramcell + 1, val, i + 1, numpx,
                          collision)
    ELSE Xor8Loop_Or(cells, vramcell + 1, val, i + 1, numpx, collision)

\* The loop of xor8px from pixel i on: the cells and the collision so far.
RECURSIVE Xor8Loop(_, _, _, _, _, _)
Xor8Loop(cells, vramcell, val, i, numpx, collision) ==
    IF i = numpx THEN [vram |-> cells, collision |-> collision]
    ELSE IF SpriteBit(val, i)
    THEN IF Peek(cells, vramcell) = 1
         THEN Xor8Loop(Poke(cells, vramcell, 0), vramcell + 1, val, i + 1, numpx, TRUE)
         ELSE Xor8Loop(Poke(cells, vramcell, 1), vramcell + 1, val, i + 1, numpx,
                       collision)
    ELSE Xor8Loop(cells, vramcell + 1, val, i + 1, numpx, collision)

\* xor8px drawing all 8 pixels whatever the column.
xor8px_Wrap(m, x, y, val) ==
    LET r == Xor8Loop(m.vram, (y * xsize) + x, val, 0, 8, FALSE)
    IN  IF y >= 32
        THEN [m |-> m, ret |-> "None"]
        ELSE [m |-> [m EXCEPT !.vram = r.vram, !.needs_draw = TRUE],
              ret |-> IF r.collision THEN "True" ELSE "False"]

xor8px(m, x, y, val) ==
    LET vramcell == (y * xsize) + x
        numpx == IF 8 < xsize - x THEN 8 ELSE xsize - x
        r == Xor8Loop(m.vram, vramcell, val, 0, numpx, FALSE)
    IN  IF y >= 32
        THEN [m |-> m, ret |-> "None"]
        ELSE [m |-> [m EXCEPT !.vram = r.vram, !.needs_draw = TRUE],
              ret |-> IF r.collision THEN "True" ELSE "False"]

\* ------------------------------------------------- instruction handlers
_0_opcodes(m, opcode, vx, vy, n, kk, nnn) ==
    IF opcode = 224 THEN Return(clear(m), TRUE)
    ELSE IF opcode = 238
    THEN IF Len(m.stack) > 0
         THEN Return([m EXCEPT !.PC = m.stack[Len(m.stack)],
                               !.stack = SubSeq(m.stack, 1, Len(m.stack) - 1)], TRUE)
         ELSE Raise(m, "AssertionError")
    ELSE RaiseInvalid(m, opcode)

_1nnn(m, opcode, vx, vy, n, kk, nnn) == Return([m EXCEPT !.PC = nnn], FALSE)

\* _2nnn pushing the address of the next instruction.
_2nnn_PushNext(m, opcode, vx, vy, n, kk, nnn) ==
    Return([m EXCEPT !.stack = Append(m.stack, m.PC + 2), !.PC = nnn], FALSE)

_2nnn(m, opcode, vx, vy, n, kk, nnn) ==
    Return([m EXCEPT !.stack = Append(m.stack, m.PC), !.PC = nnn], FALSE)

_3xkk(m, opcode, vx, vy, n, kk, nnn) ==
    Return(IF m.V[vx] = kk THEN [m EXCEPT !.PC = m.PC + 2] ELSE m, TRUE)

_4xkk(m, opcode, vx, vy, n, kk, nnn) ==
    Return(IF m.V[vx] # kk THEN [m EXCEPT !.PC = m.PC + 2] ELSE m, TRUE)

_5xy0(m, opcode, vx, vy, n, kk, nnn) ==
    IF n # 0 THEN RaiseInvalid(m, opcode)
    ELSE Return(IF m.V[vx] = m.V[vy] THEN [m EXCEPT !.PC = m.PC + 2] ELSE m, TRUE)

_6xkk(m, opcode, vx, vy, n, kk, nnn) == Return(SetV(m, vx, kk), TRUE)

\* _7xkk setting the carry in VF as 8xy4 does.
_7xkk_Carry(m, opcode, vx, vy, n, kk, nnn) ==
    Return(SetV(SetV(m, vx, BitAnd(m.V[vx] + kk, 255)), 15,
                IF m.V[vx] + kk > 255 THEN 1 ELSE 0), TRUE)

_7xkk(m, opcode, vx, vy, n, kk, nnn) ==
    Return(SetV(m, vx, BitAnd(m.V[vx] + kk, 255)), TRUE)

invalid_op(m, opcode, vx, vy) == RaiseInvalid(m, opcode)

_8xy0(m, opcode, vx, vy) == Return(SetV(m, vx, m.V[vy]), TRUE)

_8xy1(m, opcode, vx, vy) == Return(SetV(m, vx, BitOr(m.V[vx], m.V[vy])), TRUE)

_8xy2(m, opcode, vx, vy) == Return(SetV(m, vx, BitAnd(m.V[vx], m.V[vy])), TRUE)

_8xy3(m, opcode, vx, vy) == Return(SetV(m, vx, BitXor(m.V[vx], m.V[vy])), TRUE)

\* _8xy4 with the carry at sum >= 255.
_8xy4_OffByOne(m, opcode, vx, vy) ==
    LET sum == m.V[vx] + m.V[vy]
        m1 == SetV(m, vx, BitAnd(sum, 255))
    IN  Return(SetV(m1, 15, IF sum >= 255 THEN 1 ELSE 0), TRUE)

_8xy4(m, opcode, vx, vy) ==
    LET sum == m.V[vx] + m.V[vy]
        m1 == SetV(m, vx, BitAnd(sum, 255))
    IN  Return(SetV(m1, 15, IF sum > 255 THEN 1 ELSE 0), TRUE)

_8xy5(m, opcode, vx, vy) ==
    LET notborrow == IF m.V[vx] > m.V[vy] THEN 1 ELSE 0
        m1 == SetV(m, vx, (m.V[vx] - m.V[vy]) % 256)
    IN  Return(SetV(m1, 15, notborrow), TRUE)

_8xy6(m, opcode, vx, vy) ==
    LET m1 == IF m.shift_vy THEN SetV(m, vx, m.V[vy]) ELSE m
        lsb == BitAnd(m1.V[vx], 1)
        m2 == SetV(m1, vx, Shr(m1.V[vx], 1))
    IN  Return(SetV(m2, 15, lsb), TRUE)

_8xy7(m, opcode, vx, vy) ==
    LET notborrow == IF m.V[vy] > m.V[vx] THEN 1 ELSE 0
        m1 == SetV(m, vx, (m.V[vy] - m.V[vx]) % 256)
    IN  Return(SetV(m1, 15, notborrow), TRUE)

_8xyE(m, opcode, vx, vy) ==
    LET m1 == IF m.shift_vy THEN SetV(m, vx, m.V[vy]) ELSE m
        msb == BitAnd(m1.V[vx], 128)
        m2 == SetV(m1, vx, BitAnd(Shl(m1.V[vx], 1), 255))
    IN  Return(SetV(m2, 15, msb), TRUE)

_8_opcodes(m, opcode, vx, vy, n, kk, nnn) ==
    CASE n = 0 -> _8xy0(m, opcode, vx, vy)
      [] n = 1 -> _8xy1(m, opcode, vx, vy)
      [] n = 2 -> _8xy2(m, opcode, vx, vy)
      [] n = 3 -> _8xy3(m, opcode, vx, vy)
      [] n = 4 -> _8xy4(m, opcode, vx, vy)
      [] n = 5 -> _8xy5(m, opcode, vx, vy)
      [] n = 6 -> _8xy6(m, opcode, vx, vy)
      [] n = 7 -> _8xy7(m, opcode, vx, vy)
      [] n = 14 -> _8xyE(m, opcode, vx, vy)
      [] OTHER -> invalid_op(m, opcode, vx, vy)

\* _9xy0 without the check of the last nibble.
_9xy0_AnyN(m, opcode, vx, vy, n, kk, nnn) ==
    Return(IF m.V[vx] # m.V[vy] THEN [m EXCEPT !.PC = m.PC + 2] ELSE m, TRUE)

_9xy0(m, opcode, vx, vy, n, kk, nnn) ==
    IF n # 0 THEN RaiseInvalid(m, opcode)
    ELSE Return(IF m.V[vx] # m.V[vy] THEN [m EXCEPT !.PC = m.PC + 2] ELSE m, TRUE)

_Annn(m, opcode, vx, vy, n, kk, nnn) == Return([m EXCEPT !.I = nnn], TRUE)

_Bnnn(m, opcode, vx, vy, n, kk, nnn) ==
    Return([m EXCEPT !.PC = nnn + m.V[0]], FALSE)

_Cxkk(m, opcode, vx, vy, n, kk, nnn) == Return(SetV(m, vx, BitAnd(m.rand, kk)), TRUE)

\* The loop of _Dxyn from row i on; an index past the end of RAM raises
\* IndexError with the rows before it drawn.
RECURSIVE DxynRows(_, _, _, _, _, _)
DxynRows(m, x, y, i, n, collision) ==
    IF i = n THEN Return(SetV(m, 15, collision), TRUE)
    ELSE IF m.I + i >= RamSize THEN Raise(m, "IndexError")
    ELSE LET r == xor8px(m, x, y + i, Peek(m.RAM, m.I + i))
         IN  DxynRows(r.m, x, y, i + 1, n, IF r.ret = "True" THEN 1 ELSE collision)

_Dxyn(m, opcode, vx, vy, n, kk, nnn) ==
    DxynRows(m, BitAnd(m.V[vx], 63), BitAnd(m.V[vy], 31), 0, n, 0)

_E_opcodes(m, opcode, vx, vy, n, kk, nnn) ==
    IF kk = 158
    THEN Return(IF m.key_pressed # None /\ m.key_pressed = m.V[vx]
                THEN [m EXCEPT !.PC = m.PC + 2] ELSE m, TRUE)
    ELSE IF kk = 161
    THEN Return(IF m.key_pressed = None \/ m.key_pressed # m.V[vx]
                THEN [m EXCEPT !.PC = m.PC + 2] ELSE m, TRUE)
    ELSE RaiseInvalid(m, opcode)

_Fx07(m, vx) == Return(SetV(m, vx, m.delay_register), TRUE)

\* _Fx0A storing the key that is down while the wait goes on.
_Fx0A_Polling(m, vx) ==
    IF ~m.blocking_on_fx0a
    THEN Return([m EXCEPT !.blocking_on_fx0a = TRUE,
                          !.fx0a_key_pressed = None,
                          !.fx0a_key_up = None], FALSE)
    ELSE IF m.fx0a_key_up = None
    THEN Return(IF m.fx0a_key_pressed = None THEN m
                ELSE SetV(m, vx, m.fx0a_key_pressed), FALSE)
    ELSE Return([m EXCEPT !.V[vx] = m.fx0a_key_up,
                          !.blocking_on_fx0a = FALSE,
                          !.fx0a_key_up = None,
                          !.fx0a_key_pressed = None], TRUE)

\* _Fx0A ending the wait as soon as a key has gone down.
_Fx0A_OnKeyDown(m, vx) ==
    IF ~m.blocking_on_fx0a
    THEN Return([m EXCEPT !.blocking_on_fx0a = TRUE,
                          !.fx0a_key_pressed = None,
                          !.fx0a_key_up = None], FALSE)
    ELSE IF m.fx0a_key_pressed = None
    THEN Return(m, FALSE)
    ELSE Return([m EXCEPT !.V[vx] = m.fx0a_key_pressed,
                          !.blocking_on_fx0a = FALSE,
                          !.fx0a_key_up = None,
                          !.fx0a_key_pressed = None], TRUE)

_Fx0A(m, vx) ==
    IF ~m.blocking_on_fx0a
    THEN Return([m EXCEPT !.blocking_on_fx0a = TRUE,
                          !.fx0a_key_pressed = None,
                          !.fx0a_key_up = None], FALSE)
    ELSE IF m.fx0a_key_up = None
    THEN Return(m, FALSE)
    ELSE Return([m EXCEPT !.V[vx] = m.fx0a_key_up,
                          !.blocking_on_fx0a = FALSE,
                          !.fx0a_key_up = None,
                          !.fx0a_key_pressed = None], TRUE)

\* _Fx15 leaving the timestamp as it is.
_Fx15_Unstamped(m, vx) == Return([m EXCEPT !.delay_register = m.V[vx]], TRUE)

_Fx15(m, vx) ==
    LET m1 == [m EXCEPT !.delay_register = m.V[vx]]
    IN  Return(IF m1.delay_register > 0
               THEN [m1 EXCEPT !.delay_register_last_tick_time = m.clock]
               ELSE m1, TRUE)

_Fx18(m, vx) ==
    LET m1 == [m EXCEPT !.sound_register = m.V[vx]]
    IN  Return(IF m1.sound_register > 0
               THEN [m1 EXCEPT !.sound_register_last_tick_time = m.clock,
                               !.beep_playing = TRUE]
               ELSE m1, TRUE)

_Fx1E(m, vx) == Return([m EXCEPT !.I = m.I + BitAnd(m.V[vx], 4095)], TRUE)

\* _Fx29 with the assertion off by one.
_Fx29_OffByOne(m, vx) ==
    IF m.V[vx] <= 16 THEN Return([m EXCEPT !.I = 5 * m.V[vx]], TRUE)
    ELSE Raise(m, "AssertionError")

_Fx29(m, vx) ==
    IF m.V[vx] <= 15 THEN Return([m EXCEPT !.I = 5 * m.V[vx]], TRUE)
    ELSE Raise(m, "AssertionError")

_Fx33(m, vx) ==
    LET val == m.V[vx]
        hundreds == val \div 100
        tens == (val - (100 * hundreds)) \div 10
        ones == val % 10
    IN  IF m.I >= RamSize THEN Raise(m, "IndexError")
        ELSE IF m.I + 1 >= RamSize
        THEN Raise([m EXCEPT !.RAM = Poke(m.RAM, m.I, hundreds)], "IndexError")
        ELSE IF m.I + 2 >= RamSize
        THEN Raise([m EXCEPT !.RAM = Poke(Poke(m.RAM, m.I, hundreds), m.I + 1, tens)],
                   "IndexError")
        ELSE Return([m EXCEPT !.RAM = Poke(Poke(Poke(m.RAM, m.I, hundreds),
                                                m.I + 1, tens), m.I + 2, ones)], TRUE)

\* The loop of _Fx55 from register i on.
RECURSIVE Fx55Loop(_, _, _, _)
Fx55Loop(m, vx, i, oldI) ==
    IF i = vx + 1
    THEN Return(IF ~m.increment_i THEN [m EXCEPT !.I = oldI] ELSE m, TRUE)
    ELSE IF m.I >= RamSize THEN Raise(m, "IndexError")
    ELSE Fx55Loop([m EXCEPT !.RAM = Poke(m.RAM, m.I, m.V[i]), !.I = m.I + 1],
                  vx, i + 1, oldI)

\* _Fx55 leaving I advanced whatever INCREMENT_I_FX55_FX65 says.
_Fx55_Advanced(m, vx) == Fx55Loop([m EXCEPT !.increment_i = TRUE], vx, 0, m.I)

_Fx55(m, vx) == Fx55Loop(m, vx, 0, m.I)

\* The loop of _Fx65 from register i on.
RECURSIVE Fx65Loop(_, _, _, _)
Fx65Loop(m, vx, i, oldI) ==
    IF i = vx + 1
    THEN Return(IF ~m.increment_i THEN [m EXCEPT !.I = oldI] ELSE m, TRUE)
    ELSE IF m.I >= RamSize THEN Raise(m, "IndexError")
    ELSE Fx65Loop([m EXCEPT !.V[i] = Peek(m.RAM, m.I), !.I = m.I + 1], vx, i + 1, oldI)

_Fx65(m, vx) == Fx65Loop(m, vx, 0, m.I)

_F_opcodes(m, opcode, vx, vy, n, kk, nnn) ==
    CASE kk = 7 -> _Fx07(m, vx)
      [] kk = 10 -> _Fx0A(m, vx)
      [] kk = 21 -> _Fx15(m, vx)
      [] kk = 24 -> _Fx18(m, vx)
      [] kk = 30 -> _Fx1E(m, vx)
      [] kk = 41 -> _Fx29(m, vx)
      [] kk = 51 -> _Fx33(m, vx)
      [] kk = 85 -> _Fx55(m, vx)
      [] kk = 101 -> _Fx65(m, vx)
      [] OTHER -> RaiseInvalid(m, opcode)

\* --------------------------------------------------------- fetch and cycle
CanFetch(m) == ProgramStart <= m.PC /\ m.PC <= LastFetch

fetch(m) == BitOr(Shl(Peek(m.RAM, m.PC), 8), Peek(m.RAM, m.PC + 1))

operation_list(m, operation, opcode, vx, vy, n, kk, nnn) ==
    CASE operation = 0 -> _0_opcodes(m, opcode, vx, vy, n, kk, nnn)
      [] operation = 1 -> _1nnn(m, opcode, vx, vy, n, kk, nnn)
      [] operation = 2 -> _2nnn(m, opcode, vx, vy, n, kk, nnn)
      [] operation = 3 -> _3xkk(m, opcode, vx, vy, n, kk, nnn)
      [] operation = 4 -> _4xkk(m, opcode, vx, vy, n, kk, nnn)
      [] operation = 5 -> _5xy0(m, opcode, vx, vy, n, kk, nnn)
      [] operation = 6 -> _6xkk(m, opcode, vx, vy, n, kk, nnn)
      [] operation = 7 -> _7xkk(m, opcode, vx, vy, n, kk, nnn)
      [] operation = 8 -> _8_opcodes(m, opcode, vx, vy, n, kk, nnn)
      [] operation = 9 -> _9xy0(m, opcode, vx, vy, n, kk, nnn)
      [] operation = 10 -> _Annn(m, opcode, vx, vy, n, kk, nnn)
      [] operation = 11 -> _Bnnn(m, opcode, vx, vy, n, kk, nnn)
      [] operation = 12 -> _Cxkk(m, opcode, vx, vy, n, kk, nnn)
      [] operation = 13 -> _Dxyn(m, opcode, vx, vy, n, kk, nnn)
      [] operation = 14 -> _E_opcodes(m, opcode, vx, vy, n, kk, nnn)
      [] OTHER -> _F_opcodes(m, opcode, vx, vy, n, kk, nnn)

\* The decoded views of an opcode.
op_operation(opcode) == Shr(opcode, 12)
op_vx(opcode) == BitAnd(Shr(opcode, 8), 15)
op_vy(opcode) == BitAnd(Shr(opcode, 4), 15)
op_n(opcode) == BitAnd(opcode, 15)
op_nnn(opcode) == BitAnd(opcode, 4095)
op_kk(opcode) == BitAnd(opcode, 255)

\* The rest of cycle once an instruction's handler has returned r.
Advanced(r) ==
    IF r.raised = "None" /\ r.increment_pc THEN [r EXCEPT !.PC = r.PC + 2] ELSE r

\* cycle from the decoding of the fetched opcode on.
Execute(m, opcode) ==
    Advanced(operation_list(m, op_operation(opcode), opcode, op_vx(opcode),
                            op_vy(opcode), op_n(opcode), op_kk(opcode), op_nnn(opcode)))

\* C8Computer.cycle
cycle(m) == IF ~CanFetch(m) THEN Raise(m, "AssertionError") ELSE Execute(m, fetch(m))


\* ------------------------------------------------------------- the timers
decrement_delay(m) ==
    IF m.delay_register > 0
    THEN IF m.delay_register_last_tick_time = None THEN Raise(m, "TypeError")
         ELSE LET tickdiff ==
                      microseconds(m.clock, m.delay_register_last_tick_time) \div TickMicros
              IN  IF tickdiff > 0
                  THEN IF m.delay_register - tickdiff <= 0
                       THEN [m EXCEPT !.delay_register = 0,
                                      !.delay_register_last_tick_time = None]
                       ELSE [m EXCEPT !.delay_register = m.delay_register - tickdiff,
                                      !.delay_register_last_tick_time = m.clock]
                  ELSE m
    ELSE m

\* decrement_sound with the elapsed ticks added to the timer.
decrement_sound_Adding(m) ==
    IF m.sound_register > 0 /\ m.sound_register_last_tick_time # None
    THEN LET tickdiff ==
                 microseconds(m.clock, m.sound_register_last_tick_time) \div TickMicros
         IN  IF tickdiff > 0
             THEN [m EXCEPT !.sound_register = m.sound_register + tickdiff,
                            !.sound_register_last_tick_time = m.clock]
             ELSE m
    ELSE m

decrement_sound(m) ==
    IF m.sound_register > 0
    THEN IF m.sound_register_last_tick_time = None THEN Raise(m, "TypeError")
         ELSE LET tickdiff ==
                      microseconds(m.clock, m.sound_register_last_tick_time) \div TickMicros
              IN  IF tickdiff > 0
                  THEN IF m.sound_register - tickdiff <= 0
                       THEN [m EXCEPT !.sound_register = 0,
                                      !.sound_register_last_tick_time = None,
                                      !.beep_playing = FALSE,
                                      !.stops = m.stops + 1]
                       ELSE [m EXCEPT !.sound_register = m.sound_register - tickdiff,
                                      !.sound_register_last_tick_time = m.clock]
                  ELSE m
    ELSE m

\* C8Computer.decrement_sound_delay_registers
decrement_sound_delay_registers(m) ==
    LET m1 == decrement_delay(m)
    IN  IF m1.raised # "None" THEN m1 ELSE decrement_sound(m1)

\* ---------------------------------------------------------------- actions
\* The variables of the interpreter, screen and beeper take the values of r.
Commit(r) ==
    /\ RAM' = r.RAM /\ V' = r.V /\ I' = r.I /\ PC' = r.PC /\ stack' = r.stack
    /\ delay_register' = r.delay_register
    /\ delay_register_last_tick_time' = r.delay_register_last_tick_time
    /\ sound_register' = r.sound_register
    /\ sound_register_last_tick_time' = r.sound_register_last_tick_time
    /\ key_pressed' = r.key_pressed
    /\ blocking_on_fx0a' = r.blocking_on_fx0a
    /\ fx0a_key_pressed' = r.fx0a_key_pressed
    /\ fx0a_key_up' = r.fx0a_key_up
    /\ vram' = r.vram /\ needs_draw' = r.needs_draw
    /\ beep_playing' = r.beep_playing
    /\ exc' = r.raised /\ exc_opcode' = r.raised_opcode
    /\ run' = (r.raised = "None")

\* The instruction at PC, when one can be fetched.
Fetched == IF CanFetch(Self) THEN fetch(Self) ELSE None
IsFx(opcode, kk) == opcode # None /\ op_operation(opcode) = 15 /\ op_kk(opcode) = kk
AtFx(kk) == IsFx(Fetched, kk)

\* The history kept of one execution of `opcode` whose result is r.
CycleGhost(opcode, r) ==
    /\ init' = init
    /\ pending' =
         IF opcode = None \/ r.raised # "None" THEN pending
         ELSE IF op_operation(opcode) = 2
         THEN Append(pending, [at |-> PC, depth |-> Len(stack)])
         ELSE IF opcode = 238 /\ pending # << >>
         THEN SubSeq(pending, 1, Len(pending) - 1)
         ELSE pending
    /\ IF IsFx(opcode, 10) /\ ~blocking_on_fx0a
       THEN wait_first_down' = None /\ wait_downs' = {} /\ wait_released' = {}
       ELSE UNCHANGED wait_ghost
    /\ IF IsFx(opcode, 24) /\ r.raised = "None"
       THEN /\ sound_set_time' = now
            /\ sound_set_value' = r.sound_register
            /\ stops_since_set' = 0
       ELSE UNCHANGED sound_ghost
    /\ flips' = r.flips /\ decays' = 0

\* Values random.randrange(0, 255) can return: the ends and the middle of
\* 0..254.
RandomSamples == {0, 1, 127, 128, 254}

\* The values random.randrange(0, 255) returns to an execution of `opcode`.
RandomValues(opcode) ==
    IF opcode # None /\ op_operation(opcode) = 12 THEN RandomSamples ELSE {0}

\* Time passes.
TimeSteps == {12500}

Advance ==
    /\ run /\ advances < MaxAdvances
    /\ \E d \in TimeSteps : now' = now + d
    /\ advances' = advances + 1
    /\ UNCHANGED << machine, quirks, run, exc, exc_opcode, last_instruction_time, num_instr,
                    keys_held, ghost >>

\* main: a KEYDOWN event of the key mapped to k, or of a key KEYMAPPING lacks.
KeyDown ==
    /\ run
    /\ \E k \in (Keys \cup {UNMAPPED}) \ keys_held :
         /\ keys_held' = keys_held \cup {k}
         /\ IF k # UNMAPPED
            THEN /\ key_pressed' = k
                 /\ fx0a_key_pressed' = IF blocking_on_fx0a THEN k ELSE fx0a_key_pressed
                 /\ IF blocking_on_fx0a
                    THEN /\ wait_first_down' =
                              IF wait_first_down = None THEN k ELSE wait_first_down
                         /\ wait_downs' = wait_downs \cup {k}
                    ELSE UNCHANGED << wait_first_down, wait_downs >>
            ELSE UNCHANGED << key_pressed, fx0a_key_pressed, wait_first_down, wait_downs >>
    /\ UNCHANGED << RAM, V, I, PC, stack, delay_register, delay_register_last_tick_time,
                    sound_register, sound_register_last_tick_time, blocking_on_fx0a,
                    fx0a_key_up, vram, needs_draw, beep_playing, quirks, run, exc, exc_opcode, now,
                    last_instruction_time, num_instr, advances, init, pending, wait_released,
                    sound_ghost, pass_ghost >>

\* KeyUp taking the release of any key for the end of the wait.
KeyUp_AnyKey ==
    /\ run
    /\ \E k \in keys_held :
         /\ keys_held' = keys_held \ {k}
         /\ key_pressed' = None
         /\ IF blocking_on_fx0a /\ k = UNMAPPED
            THEN /\ exc' = "KeyError" /\ exc_opcode' = None /\ run' = FALSE
                 /\ UNCHANGED << fx0a_key_up, fx0a_key_pressed, wait_released >>
            ELSE /\ UNCHANGED << exc, exc_opcode, run >>
                 /\ IF blocking_on_fx0a
                    THEN fx0a_key_up' = k /\ fx0a_key_pressed' = None
                    ELSE UNCHANGED << fx0a_key_up, fx0a_key_pressed >>
                 /\ wait_released' =
                      IF blocking_on_fx0a /\ k \in wait_downs
                      THEN wait_released \cup {k} ELSE wait_released
    /\ UNCHANGED << RAM, V, I, PC, stack, delay_register, delay_register_last_tick_time,
                    sound_register, sound_register_last_tick_time, blocking_on_fx0a,
                    vram, needs_draw, beep_playing, quirks, now,
                    last_instruction_time, num_instr, advances, init, pending,
                    wait_first_down,
                    wait_downs, sound_ghost, pass_ghost >>

\* main: a KEYUP event.  KEYMAPPING[event.key] of a key it lacks raises
\* KeyError while an Fx0A is blocking.
KeyUp ==
    /\ run
    /\ \E k \in keys_held :
         /\ keys_held' = keys_held \ {k}
         /\ key_pressed' = None
         /\ IF blocking_on_fx0a /\ k = UNMAPPED
            THEN /\ exc' = "KeyError" /\ exc_opcode' = None /\ run' = FALSE
                 /\ UNCHANGED << fx0a_key_up, fx0a_key_pressed, wait_released >>
            ELSE /\ UNCHANGED << exc, exc_opcode, run >>
                 /\ IF blocking_on_fx0a /\ fx0a_key_pressed = k
                    THEN fx0a_key_up' = k /\ fx0a_key_pressed' = None
                    ELSE UNCHANGED << fx0a_key_up, fx0a_key_pressed >>
                 /\ wait_released' =
                      IF blocking_on_fx0a /\ k \in wait_downs
                      THEN wait_released \cup {k} ELSE wait_released
    /\ UNCHANGED << RAM, V, I, PC, stack, delay_register, delay_register_last_tick_time,
                    sound_register, sound_register_last_tick_time, blocking_on_fx0a,
                    vram, needs_draw, beep_playing, quirks, now,
                    last_instruction_time, num_instr, advances, init, pending,
                    wait_first_down,
                    wait_downs, sound_ghost, pass_ghost >>

\* main: the timer event.
TimerEvent ==
    /\ run
    /\ \E r \in {decrement_sound_delay_registers(Self)} :
           /\ Commit(r)
           /\ stops_since_set' = stops_since_set + r.stops
           /\ decays' = IF r.delay_register < delay_register
                            \/ r.sound_register < sound_register
                         THEN decays + 1 ELSE decays
    /\ UNCHANGED << quirks, now, last_instruction_time, num_instr, keys_held, advances,
                    init, pending, wait_ghost, sound_set_time, sound_set_value, flips >>

\* main: the QUIT event.
Quit ==
    /\ run
    /\ run' = FALSE
    /\ UNCHANGED << machine, quirks, exc, exc_opcode, now, last_instruction_time, num_instr,
                    keys_held, advances, ghost >>

\* main: one instruction, when at least INSTRUCTION_DELAY microseconds show
\* on the clock since the last one; every 8th instruction presents the screen.
Cycle ==
    /\ run
    /\ microseconds(now, last_instruction_time) \div INSTRUCTION_DELAY > 0
    /\ \E opcode \in {Fetched} : \E rnd \in RandomValues(opcode) :
         \E c \in {cycle([Self EXCEPT !.rand = rnd])} :
         \E r \in {IF c.raised = "None" /\ (num_instr + 1) % 8 = 0 THEN draw(c) ELSE c} :
             /\ Commit(r)
             /\ CycleGhost(opcode, r)
             /\ IF r.raised = "None"
                THEN num_instr' = num_instr + 1 /\ last_instruction_time' = now
                ELSE UNCHANGED << num_instr, last_instruction_time >>
    /\ UNCHANGED << quirks, now, keys_held, advances >>

\* C8Computer.cycle called on its own, at most `limit` times.
StepUpTo(limit) ==
    /\ run /\ num_instr < limit
    /\ \E opcode \in {Fetched} : \E rnd \in RandomValues(opcode) :
         \E r \in {cycle([Self EXCEPT !.rand = rnd])} :
             /\ Commit(r)
             /\ CycleGhost(opcode, r)
             /\ num_instr' = IF r.raised = "None" THEN num_instr + 1 ELSE num_instr
    /\ UNCHANGED << quirks, now, last_instruction_time, keys_held, advances >>

\* One instruction and the same again.
Step == StepUpTo(2)

\* A program run instruction after instruction.
Run == StepUpTo(MaxSteps)

\* ------------------------------------------------------------ initial states
Zeroes(n) == [i \in 0..(n - 1) |-> 0]

\* The state after C8Screen(), C8Computer() and load_rom(rom), and after
\* the n jumps that took the program from 0x200 to pc.
Entered(rom, pc, n) ==
    /\ RAM = load_rom(InitialRAM, rom)
    /\ V = Zeroes(16) /\ I = 0 /\ PC = pc /\ stack = << >>
    /\ delay_register = 0 /\ delay_register_last_tick_time = None
    /\ sound_register = 0 /\ sound_register_last_tick_time = None
    /\ key_pressed = None /\ blocking_on_fx0a = FALSE
    /\ fx0a_key_pressed = None /\ fx0a_key_up = None
    /\ vram = Fill(0) /\ needs_draw = FALSE
    /\ beep_playing = FALSE
    /\ run = TRUE /\ exc = "None" /\ exc_opcode = None
    /\ now = 0 /\ last_instruction_time = 0 /\ num_instr = n
    /\ keys_held = {} /\ advances = 0
    /\ pending = << >>
    /\ wait_first_down = None /\ wait_downs = {} /\ wait_released = {}
    /\ sound_set_time = None /\ sound_set_value = 0 /\ stops_since_set = 0
    /\ flips = 0 /\ decays = 0

\* The state as the scheduler loop is entered.
Constructed(rom) == Entered(rom, ProgramStart, 0)

\* Two bytes of ROM per opcode, big-endian.
RECURSIVE Rom(_)
Rom(ops) ==
    IF ops = << >> THEN << >>
    ELSE << Shr(Head(ops), 8), BitAnd(Head(ops), 255) >> \o Rom(Tail(ops))

\* F10A ; 1200 : wait for a key into V1, again and again.
KeyWaitProgram == << 61706, 4608 >>
\* 6002 ; F015 ; F018 ; 1202 : set both timers to 2, again and again.
TimerProgram == << 24578, 61461, 61464, 4610 >>
\* 6102 ; F115 ; F118 ; F015 ; F018 ; 120A : set both timers to 2, then to
\* 0, and stay.
TimerClearProgram == << 24834, 61717, 61720, 61461, 61464, 4618 >>
\* E09E ; E0A1 ; 1200 ; 1200 : ask whether key V0 = 0 is down, again and again.
KeySkipProgram == << 57502, 57505, 4608, 4608 >>
Programs == {KeyWaitProgram, TimerProgram}
ClearAndSkipPrograms == {TimerClearProgram, KeySkipProgram}

\* main() sets both quirk flags before it loads the ROM.
Init ==
    /\ \E p \in Programs : Constructed(Rom(p))
    /\ SHIFT_VY_8XY6_8XYE = TRUE /\ INCREMENT_I_FX55_FX65 = TRUE
    /\ init = [V |-> V, I |-> I, vram |-> vram]

Next == Advance \/ KeyDown \/ KeyUp \/ TimerEvent \/ Quit \/ Cycle

Spec == Init /\ [][Next]_vars

\* main with a program that sets the timers to 0 or one that asks for a key.
InitClearAndSkip ==
    /\ \E p \in ClearAndSkipPrograms : Constructed(Rom(p))
    /\ SHIFT_VY_8XY6_8XYE = TRUE /\ INCREMENT_I_FX55_FX65 = TRUE
    /\ init = [V |-> V, I |-> I, vram |-> vram]

SpecClearAndSkip == InitClearAndSkip /\ [][Next]_vars


\* ------------------------------------------------ single instructions
\* The instruction execution began at.
FirstOp == BitOr(Shl(Peek(RAM, ProgramStart), 8), Peek(RAM, ProgramStart + 1))
FirstX == op_vx(FirstOp)
FirstY == op_vy(FirstOp)
Is8xy(n) == op_operation(FirstOp) = 8 /\ op_n(FirstOp) = n
Is7xkk == op_operation(FirstOp) = 7
IsFx29 == op_operation(FirstOp) = 15 /\ op_kk(FirstOp) = 41
IsDxyn == op_operation(FirstOp) = 13

ByteSamples == {0, 1, 2, 15, 16, 127, 128, 129, 254, 255}
RegPairs == {<<1, 2>>, <<1, 1>>, <<15, 1>>, <<1, 15>>}

\* V with Vx = v, Vy = w (Vx = Vy = v when x = y) and VF = f when F is neither.
Registers(x, y, v, w, f) ==
    [r \in 0..15 |-> IF r = x THEN v ELSE IF r = y THEN w ELSE IF r = 15 THEN f ELSE 0]

Opcode(operation, x, y, n) == Shl(operation, 12) + Shl(x, 8) + Shl(y, 4) + n

\* The instruction twice in the ROM, the registers, I, the display, the
\* stack and the quirk flags as given; everything else as constructed.
LoadedWith(opcode, rom_data, regs, index, cells, shift, increment, calls) ==
    /\ RAM = load_rom(InitialRAM, Rom(<< opcode, opcode >>) \o rom_data)
    /\ V = regs /\ I = index /\ PC = ProgramStart /\ stack = calls
    /\ delay_register = 0 /\ delay_register_last_tick_time = None
    /\ sound_register = 0 /\ sound_register_last_tick_time = None
    /\ key_pressed = None /\ blocking_on_fx0a = FALSE
    /\ fx0a_key_pressed = None /\ fx0a_key_up = None
    /\ vram = cells /\ needs_draw = FALSE
    /\ beep_playing = FALSE
    /\ run = TRUE /\ exc = "None" /\ exc_opcode = None
    /\ now = 0 /\ last_instruction_time = 0 /\ num_instr = 0
    /\ keys_held = {} /\ advances = 0
    /\ pending = [i \in 1..Len(calls) |-> [at |-> calls[i], depth |-> i - 1]]
    /\ wait_first_down = None /\ wait_downs = {} /\ wait_released = {}
    /\ sound_set_time = None /\ sound_set_value = 0 /\ stops_since_set = 0
    /\ flips = 0 /\ decays = 0
    /\ SHIFT_VY_8XY6_8XYE = shift /\ INCREMENT_I_FX55_FX65 = increment
    /\ init = [V |-> regs, I |-> index, vram |-> cells]

\* The same with an empty stack and I left alone by Fx55 and Fx65.
Loaded(opcode, rom_data, regs, index, cells, shift) ==
    LoadedWith(opcode, rom_data, regs, index, cells, shift, FALSE, << >>)

\* 7xkk
Init7xkk ==
    \E x \in {1, 15}, kk \in ByteSamples, v \in 0..255, f \in {1, 170} :
        Loaded(Opcode(7, x, 0, 0) + kk, << >>, Registers(x, x, v, v, f), 0, Fill(0), FALSE)

\* 8xy4, 8xy5, 8xy6, 8xy7, 8xyE
Init8xyn ==
    \E n \in {4, 5, 6, 7, 14}, p \in RegPairs, v \in 0..255, w \in ByteSamples :
        \E shift \in (IF n \in {6, 14} THEN BOOLEAN ELSE {FALSE}) :
            Loaded(Opcode(8, p[1], p[2], n), << >>,
                   Registers(p[1], p[2], v, w, 170), 0, Fill(0), shift)

\* Fx29
InitFx29 ==
    \E x \in {1, 15}, v \in 0..255 :
        Loaded(Opcode(15, x, 2, 9), << >>, Registers(x, x, v, v, 170), 768, Fill(0), FALSE)

\* Displays: blank, and the two top and two bottom rows lit entirely or in
\* every other column.
EdgeRows == {c \in 0..(xsize * ysize - 1) : (c \div xsize) \in {0, 1, ysize - 2, ysize - 1}}
Displays ==
    { Fill(0),
      [c \in EdgeRows |-> 1],
      [c \in {c \in EdgeRows : c % 2 = 0} |-> 1] }

SpriteRows == {0, 255, 165}
AnchorX == {0, 5, 60, 63, 70}
AnchorY == {0, 30, 31, 33}

\* Dxyn with the sprite behind the two instructions in the ROM, or I at the
\* last byte of RAM.
InitDxyn ==
    \E p \in RegPairs, n \in 0..MaxRows, ax \in AnchorX, ay \in AnchorY,
       sprite \in [1..MaxRows -> SpriteRows], cells \in Displays,
       index \in {ProgramStart + 4, RamSize - 1} :
        Loaded(Opcode(13, p[1], p[2], n), sprite,
               Registers(p[1], p[2], ax, ay, 170), index, cells, FALSE)

\* Every 16-bit value as the instruction, with registers that differ from one
\* another, one return address on the stack and a lit display.
InitDecode ==
    \E opcode \in 0..65535 :
        LoadedWith(opcode, << >>, [r \in 0..15 |-> r], 768, [c \in EdgeRows |-> 1],
                   FALSE, FALSE, << ProgramStart + 16 >>)

\* Arithmetic instructions and Fx29, executed on their own.
InitAlu == Init7xkk \/ Init8xyn \/ InitFx29

SpecAlu == InitAlu /\ [][Step]_vars

\* Dxyn, executed on its own.
SpecDraw == InitDxyn /\ [][Step]_vars


\* Calls, returns, jumps (to an even, an odd and an out-of-range address, and
\* relative to V0) and a skip:
\* 2204, 2206, 00EE, 1202, 1203, 1FFF, 4012, B100.
FlowOps == {8708, 8710, 238, 4610, 4611, 8191, 16402, 45312}
FlowSlots == 1..4

\* A program of four of these instructions, as main starts it.
InitFlow ==
    /\ \E p \in [FlowSlots -> FlowOps] : Constructed(Rom(p))
    /\ SHIFT_VY_8XY6_8XYE = TRUE /\ INCREMENT_I_FX55_FX65 = TRUE
    /\ init = [V |-> V, I |-> I, vram |-> vram]

SpecFlow == InitFlow /\ [][Run]_vars

\* Where I points for the memory instructions: into the font, at its last two
\* bytes, at the data behind the instructions, into empty memory and at the
\* last two bytes of RAM.
IndexSamples == {0, 78, ProgramStart + 4, 768, RamSize - 2}
BlockData == << 17, 34, 51 >>

\* Fx33, Fx55 and Fx65, with registers that differ from one another and from
\* the memory at I, under either setting of INCREMENT_I_FX55_FX65.
InitBlock ==
    \E kk \in {51, 85, 101}, x \in {0, 2, 15}, index \in IndexSamples,
       v \in ByteSamples, increment \in BOOLEAN :
        LoadedWith(Opcode(15, x, 0, 0) + kk, BlockData,
                   [r \in 0..15 |-> (v + 16 * r + 1) % 256], index, Fill(0),
                   FALSE, increment, << >>)

\* The memory instructions, executed on their own.
SpecMem == InitBlock /\ [][Step]_vars

\* The timers as an Fx15 of d and an Fx18 of s at time 0 left them (d, s > 0),
\* met again when the clock shows `clock`; everything else as constructed.
Ticking(d, s, clock) ==
    /\ RAM = load_rom(InitialRAM, Rom(TimerProgram))
    /\ V = Zeroes(16) /\ I = 0 /\ PC = ProgramStart + 6 /\ stack = << >>
    /\ delay_register = d /\ delay_register_last_tick_time = 0
    /\ sound_register = s /\ sound_register_last_tick_time = 0
    /\ key_pressed = None /\ blocking_on_fx0a = FALSE
    /\ fx0a_key_pressed = None /\ fx0a_key_up = None
    /\ vram = Fill(0) /\ needs_draw = FALSE
    /\ beep_playing = TRUE
    /\ run = TRUE /\ exc = "None" /\ exc_opcode = None
    /\ now = clock /\ last_instruction_time = 0 /\ num_instr = 3
    /\ keys_held = {} /\ advances = 0
    /\ pending = << >>
    /\ wait_first_down = None /\ wait_downs = {} /\ wait_released = {}
    /\ sound_set_time = 0 /\ sound_set_value = s /\ stops_since_set = 0
    /\ flips = 0 /\ decays = 0
    /\ SHIFT_VY_8XY6_8XYE = TRUE /\ INCREMENT_I_FX55_FX65 = TRUE
    /\ init = [V |-> V, I |-> I, vram |-> vram]

\* Timer values, and times on the clock short of a tick period, at one, past
\* two, and at and past one second.
TimerSamples == {1, 2, 3, 61, 255}
ClockSamples == {12500, TickMicros, 40000, MicrosPerSecond, MicrosPerSecond + 20000}

InitTick == \E d \in TimerSamples, s \in TimerSamples, clock \in ClockSamples :
                Ticking(d, s, clock)

\* Timer events as time passes.
SpecTick == InitTick /\ [][Advance \/ TimerEvent]_vars

\* Any one instruction, executed on its own.
SpecDecode == InitDecode /\ [][Step]_vars

\* =================================================================== claims
\* ----------------------------------------------------- the scheduler (Spec)

\* C1: from the first execution of an Fx0A on, PC stays at that instruction;
\* a step leaves it only while the wait is on and a key that went down during
\* the wait has since gone up, and then PC advances by exactly 2.
C1_WaitHoldsPC ==
    [][ (AtFx(10) /\ PC' # PC) =>
            (blocking_on_fx0a /\ wait_released # {} /\ PC' = PC + 2) ]_vars

\* A wait has ended: V1 holds a key that went down and up during it.
C1_Witness ==
    /\ PC = ProgramStart + 2 /\ ~blocking_on_fx0a /\ num_instr = 2
    /\ wait_released # {} /\ V[1] \in wait_released

\* C2: while Fx0A waits, the tracked key is the first key seen to go down
\* since the wait began, and the value written to Vx when the wait ends is
\* that key.
C2_TrackedKeyIsFirstDown ==
    [][ /\ (blocking_on_fx0a' /\ fx0a_key_pressed' # None)
              => fx0a_key_pressed' = wait_first_down'
        /\ (AtFx(10) /\ PC' # PC) => V'[op_vx(Fetched)] = wait_first_down ]_vars

\* C3: once n full 1/60 s periods have passed since Fx18 set the sound timer
\* to n >= 1, a processed timer tick leaves the sound timer 0 with exactly
\* one tone-off since the set.
C3_SoundTimerExpires ==
    [][ ( /\ TimerEvent
          /\ sound_set_time # None /\ sound_set_value >= 1
          /\ 60 * (now - sound_set_time) >= sound_set_value * MicrosPerSecond )
        => (sound_register' = 0 /\ stops_since_set' = 1) ]_vars

\* C4: a timer never goes below 0, and only a step that executes Fx15 (the
\* delay timer) or Fx18 (the sound timer) increases it; so a timer at 0 stays
\* 0 until it is set.
C4_TimersOnlyDecay ==
    [][ /\ delay_register' >= 0 /\ sound_register' >= 0
        /\ delay_register' > delay_register => (AtFx(21) /\ num_instr' = num_instr + 1)
        /\ sound_register' > sound_register => (AtFx(24) /\ num_instr' = num_instr + 1)
      ]_vars

\* The sound timer was set, and has decayed to 0 with its tone turned off.
C4_Witness ==
    /\ sound_set_value > 0 /\ sound_register = 0 /\ stops_since_set = 1
    /\ delay_register > 0


\* A step that executes the instruction at PC to its end.
Completes == Fetched # None /\ num_instr' = num_instr + 1

\* C15: a timer at 0 has no last-tick timestamp, and right after an Fx15 or
\* Fx18 that sets a nonzero value the timer's timestamp is the current time.
C15_TimestampIffRunning ==
    [][ /\ delay_register' = 0 => delay_register_last_tick_time' = None
        /\ sound_register' = 0 => sound_register_last_tick_time' = None
        /\ (AtFx(21) /\ Completes /\ delay_register' > 0)
              => delay_register_last_tick_time' = now
        /\ (AtFx(24) /\ Completes /\ sound_register' > 0)
              => sound_register_last_tick_time' = now ]_vars

\* What a timer tick at time `clock` makes of a timer with the value
\* `register` and the last-tick timestamp `last`: the value less the whole
\* tick periods elapsed, not below 0, and, while it is not 0, the timestamp
\* moved on by those periods.
Decayed(register, last, clock) ==
    LET ticks == (clock - last) \div TickMicros
        left == IF register > ticks THEN register - ticks ELSE 0
    IN  [register |-> left, last |-> IF left > 0 THEN last + ticks * TickMicros ELSE None]

\* C16: a timer tick takes from a timer above 0 the whole number of 1/60 s
\* periods elapsed since its timestamp, not below 0, and moves the timestamp
\* of a timer still above 0 on by exactly those periods.
C16_TickDecay ==
    [][ TimerEvent =>
          /\ delay_register > 0 =>
                LET d == Decayed(delay_register, delay_register_last_tick_time, now)
                IN  /\ delay_register' = d.register
                    /\ delay_register' > 0 => delay_register_last_tick_time' = d.last
          /\ sound_register > 0 =>
                LET d == Decayed(sound_register, sound_register_last_tick_time, now)
                IN  /\ sound_register' = d.register
                    /\ sound_register' > 0 => sound_register_last_tick_time' = d.last
      ]_vars

\* C17: the tone is playing iff the sound timer is not 0.
C17_ToneIffSound == beep_playing <=> sound_register > 0

\* C18: Ex9E skips the next instruction iff the key numbered Vx is down, and
\* ExA1 iff it is not, whatever keys went down and up before.
C18_SkipOnKeysDown ==
    [][ (Completes /\ op_operation(Fetched) = 14) =>
            LET down == V[op_vx(Fetched)] \in keys_held
                skip == IF op_kk(Fetched) = 158 THEN down ELSE ~down
            IN  PC' = PC + (IF skip THEN 4 ELSE 2) ]_vars

\* ------------------------------------------------------ Dxyn (SpecDraw)
\* The second of two executions of the same Dxyn.
SecondDraw == IsDxyn /\ num_instr = 1 /\ num_instr' = 2

\* A cell the first draw turned on.
TurnedOn == \E c \in DOMAIN vram : vram[c] = 1 /\ Peek(init.vram, c) = 0

\* The second draw gives every display cell the value it had before the first
\* and reports in VF whether the first draw turned a cell on.
Restored == vram' = init.vram /\ V'[15] = (IF TurnedOn THEN 1 ELSE 0)

\* C5 as stated: for every display, anchor and sprite the second of two
\* executions of the same Dxyn restores the display and reports the collision.
C5_DrawTwice == [][ SecondDraw => Restored ]_vars

\* C5 as amended: the same, when neither anchor register of the Dxyn is VF
\* (the first draw writes the collision flag into VF, which moves the anchor
\* of the second).
C5_DrawTwiceSameAnchor ==
    [][ (SecondDraw /\ FirstX # 15 /\ FirstY # 15) => Restored ]_vars

\* A sprite clipped at the right edge was drawn twice onto lit cells, turning
\* some cells on the first time; the second draw collided.
C5_Witness ==
    /\ IsDxyn /\ num_instr = 2 /\ FirstX # 15 /\ FirstY # 15
    /\ init.V[FirstX] = 60 /\ op_n(FirstOp) = 2
    /\ init.vram # Fill(0) /\ vram = init.vram /\ V[15] = 1

\* The cells of a display that are not 0.
LitCells(cells) == {c \in DOMAIN cells : cells[c] # 0}

\* The cells under the visible 1-bits of the sprite the Dxyn at PC draws: row
\* i of it is memory[I + i], its bit 7 - j lands at column Vx mod 64 + j of
\* row Vy mod 32 + i, and what falls past column 63 or row 31 is dropped.
SpriteCells ==
    LET x == V[op_vx(Fetched)] % 64
        y == V[op_vy(Fetched)] % 32
    IN  { (y + ij[1]) * xsize + x + ij[2] :
            ij \in { p \in (0..(op_n(Fetched) - 1)) \X (0..7) :
                         /\ y + p[1] < ysize /\ x + p[2] < xsize
                         /\ (Peek(RAM, I + p[1]) \div (2 ^ (7 - p[2]))) % 2 = 1 } }

\* C19: a Dxyn that runs to its end toggles exactly the cells under the
\* visible 1-bits of the n rows at memory[I..I+n-1], anchored at (Vx mod 64,
\* Vy mod 32) and clipped at the right and bottom edges; VF is 1 iff one of
\* those cells was 1, else 0; and every cell is 0 or 1.
C19_DrawSprite ==
    [][ (Fetched # None /\ op_operation(Fetched) = 13 /\ num_instr' = num_instr + 1) =>
            /\ LitCells(vram') = (LitCells(vram) \ SpriteCells)
                                     \cup (SpriteCells \ LitCells(vram))
            /\ \A c \in DOMAIN vram' : vram'[c] \in {0, 1}
            /\ V'[15] = (IF SpriteCells \cap LitCells(vram) # {} THEN 1 ELSE 0) ]_vars

\* D122 with V1 = 63, V2 = 31 on the display with its edge rows lit: the one
\* visible bit, at the bottom right corner, turned its cell off and collided;
\* the rest of row 31 and the first cell of the display are as they were.
C19_Witness ==
    /\ FirstOp = 53538 /\ num_instr = 1 /\ init.V[1] = 63 /\ init.V[2] = 31
    /\ init.I = ProgramStart + 4
    /\ Peek(init.vram, xsize * ysize - 1) = 1 /\ Peek(vram, xsize * ysize - 1) = 0
    /\ Peek(init.vram, xsize * ysize - 2) = 1 /\ Peek(vram, xsize * ysize - 2) = 1
    /\ Peek(vram, 0) = 1 /\ V[15] = 1

\* ---------------------------------------------- arithmetic (SpecAlu)
\* One instruction has been executed.
Executed == num_instr = 1 /\ exc = "None"

\* C6 as stated: 8xy4 with Vx = v, Vy = w leaves Vx = (v + w) mod 256 and
\* VF = 1 iff v + w > 255, else 0.
C6_AddRegister ==
    (Is8xy(4) /\ Executed) =>
        LET sum == init.V[FirstX] + init.V[FirstY]
        IN  /\ V[FirstX] = sum % 256
            /\ V[15] = (IF sum > 255 THEN 1 ELSE 0)

\* C6 as amended: VF = 1 iff v + w > 255, else 0; and Vx = (v + w) mod 256
\* when x is not F (when x is F, VF holds the carry).
C6_AddRegisterFlagLast ==
    (Is8xy(4) /\ Executed) =>
        LET sum == init.V[FirstX] + init.V[FirstY]
        IN  /\ FirstX # 15 => V[FirstX] = sum % 256
            /\ V[15] = (IF sum > 255 THEN 1 ELSE 0)

\* 8xy4 wrapped around: 129 + 128 left 1 in V1 and the carry in VF.
C6_Witness ==
    /\ Is8xy(4) /\ Executed /\ FirstX = 1 /\ FirstY = 2
    /\ init.V[1] = 129 /\ init.V[2] = 128 /\ V[1] = 1 /\ V[15] = 1

\* Every register but r holds what it held when execution began.
OthersUnchanged(r) == \A q \in 0..15 : q # r => V[q] = init.V[q]

\* C7 as stated: 7rkk leaves Vr = (v + kk) mod 256 and VF unchanged, PC
\* advanced by 2 and no other register changed.
C7_AddImmediate ==
    (Is7xkk /\ Executed) =>
        /\ V[FirstX] = (init.V[FirstX] + op_kk(FirstOp)) % 256
        /\ V[15] = init.V[15]
        /\ PC = ProgramStart + 2
        /\ OthersUnchanged(FirstX)

\* C7 as amended: 7rkk leaves Vr = (v + kk) mod 256, PC advanced by 2 and no
\* register other than Vr changed; so VF is unchanged unless r is F.
C7_AddImmediateOnlyVr ==
    (Is7xkk /\ Executed) =>
        /\ V[FirstX] = (init.V[FirstX] + op_kk(FirstOp)) % 256
        /\ FirstX # 15 => V[15] = init.V[15]
        /\ PC = ProgramStart + 2
        /\ OthersUnchanged(FirstX)

\* 7rkk wrapped around, 255 + 2 leaving 1 in V1, with VF as it was.
C7_Witness ==
    /\ Is7xkk /\ Executed /\ FirstX = 1 /\ op_kk(FirstOp) = 2
    /\ init.V[1] = 255 /\ V[1] = 1 /\ V[15] = 170

\* C8: 8xy5 leaves Vx = (Vx - Vy) mod 256 and 8xy7 leaves Vx = (Vy - Vx) mod
\* 256 (in a register other than VF), and VF = 1 iff the minuend is at least
\* the subtrahend, else 0.
C8_SubtractNotBorrow ==
    ((Is8xy(5) \/ Is8xy(7)) /\ Executed) =>
        LET minuend == IF Is8xy(5) THEN init.V[FirstX] ELSE init.V[FirstY]
            subtrahend == IF Is8xy(5) THEN init.V[FirstY] ELSE init.V[FirstX]
        IN  /\ FirstX # 15 => V[FirstX] = (minuend - subtrahend) % 256
            /\ V[15] = (IF minuend >= subtrahend THEN 1 ELSE 0)

\* C9: 8xy6 and 8xyE leave in Vx (a register other than VF) the source
\* shifted by one bit modulo 256, the source being Vy with shift-uses-vy and
\* Vx without, and in VF the bit shifted out, as 0 or 1: bit 0 of the source
\* for 8xy6, bit 7 for 8xyE.
C9_ShiftedOutBit ==
    ((Is8xy(6) \/ Is8xy(14)) /\ Executed) =>
        LET source == IF SHIFT_VY_8XY6_8XYE THEN init.V[FirstY] ELSE init.V[FirstX]
        IN  /\ FirstX # 15 =>
                  V[FirstX] = (IF Is8xy(6) THEN source \div 2 ELSE (source * 2) % 256)
            /\ V[15] = (IF Is8xy(6) THEN source % 2 ELSE (source \div 128) % 2)

\* C10: Fx29 with Vx <= 0xF leaves I = 5 * Vx, where the five bytes of that
\* digit's glyph are; with Vx > 0xF it fails and leaves I as it was.
C10_FontAddress ==
    (IsFx29 /\ (num_instr >= 1 \/ exc # "None")) =>
        IF init.V[FirstX] <= 15
        THEN /\ exc = "None" /\ I = 5 * init.V[FirstX]
             /\ \A j \in 0..4 : Peek(RAM, I + j) = font[5 * init.V[FirstX] + j + 1]
        ELSE /\ exc = "AssertionError" /\ ~run /\ num_instr = 0
             /\ I = init.I /\ PC = ProgramStart

\* Fx29 failed on the value 16 and left I as it was.
C10_Witness ==
    IsFx29 /\ init.V[FirstX] = 16 /\ exc = "AssertionError" /\ I = 768


\* ------------------------------------------------- decoding (SpecDecode)
\* The instructions the interpreter defines.
Defined(opcode) ==
    LET operation == opcode \div 4096
        n == opcode % 16
        kk == opcode % 256
    IN  \/ opcode \in {224, 238}
        \/ operation \in {1, 2, 3, 4, 6, 7, 10, 11, 12, 13}
        \/ operation \in {5, 9} /\ n = 0
        \/ operation = 8 /\ n \in (0..7) \cup {14}
        \/ operation = 14 /\ kk \in {158, 161}
        \/ operation = 15 /\ kk \in {7, 10, 21, 24, 30, 41, 51, 85, 101}

\* C11: executing any 16-bit value fails with InvalidOpCodeException iff the
\* value is not a defined instruction; the exception carries the value, the
\* failing step leaves PC, registers, I, stack, memory and display as they
\* were, and nothing is executed after it.
C11_InvalidOpcode ==
    [][ /\ Fetched # None =>
            /\ (exc' = "InvalidOpCodeException") <=> ~Defined(Fetched)
            /\ exc' = "InvalidOpCodeException" =>
                  /\ exc_opcode' = Fetched /\ ~run' /\ num_instr' = num_instr
                  /\ UNCHANGED << PC, V, I, stack, RAM, vram >>
        /\ exc # "InvalidOpCodeException" ]_vars

\* 9121 failed as the first instruction, carrying its value, and left the
\* registers, the stack and the display as they were.
C11_Witness ==
    /\ exc = "InvalidOpCodeException" /\ exc_opcode = 37153 /\ FirstOp = 37153
    /\ ~run /\ num_instr = 0 /\ PC = ProgramStart
    /\ V = init.V /\ vram = init.vram /\ stack = << ProgramStart + 16 >>


\* ------------------------------------------------ control flow (SpecFlow)
\* C12: a 2nnn pushes the address it is at and jumps to nnn; a 00EE resumes
\* right after the latest call not yet returned from, with the stack as deep
\* as before that call; a 00EE on an empty stack fails and leaves PC and the
\* stack as they were.
C12_CallReturn ==
    [][ /\ (Fetched # None /\ op_operation(Fetched) = 2) =>
            /\ stack' = Append(stack, PC)
            /\ PC' = op_nnn(Fetched)
        /\ (Fetched = 238 /\ stack # << >>) =>
            /\ pending # << >>
            /\ PC' = pending[Len(pending)].at + 2
            /\ Len(stack') = pending[Len(pending)].depth
            /\ stack' = SubSeq(stack, 1, Len(stack'))
        /\ (Fetched = 238 /\ stack = << >>) =>
            /\ exc' = "AssertionError" /\ ~run' /\ num_instr' = num_instr
            /\ PC' = PC /\ stack' = stack ]_vars

\* 2204 ; 00EE ; 2206 ; 00EE ran two nested calls and both returns, and the
\* third return found the stack empty.
C12_Witness ==
    /\ FirstOp = 8708 /\ Peek(RAM, ProgramStart + 5) = 6
    /\ num_instr = 4 /\ PC = ProgramStart + 2 /\ stack = << >> /\ pending = << >>
    /\ exc = "AssertionError"

\* C13: an instruction is fetched and executed only at an even PC within
\* 0x200..0xFFE, and a fetch with PC outside that range fails instead.
C13_FetchAligned ==
    [][ IF CanFetch(Self)
        THEN num_instr' = num_instr + 1 => PC % 2 = 0
        ELSE exc' = "AssertionError" /\ ~run' /\ num_instr' = num_instr /\ PC' = PC ]_vars


\* ----------------------------------------------------- memory (SpecMem)
\* C14: memory 0x000..0x04F holds the font loaded at construction.
C14_FontIntact == \A a \in 0..79 : Peek(RAM, a) = font[a + 1]

\* A step that executes the Fx instruction with low byte kk to its end.
Executes(kk) == AtFx(kk) /\ num_instr' = num_instr + 1

\* I after a block instruction: advanced past the x + 1 bytes when
\* INCREMENT_I_FX55_FX65 is on, else as it was.
BlockIndex == I' = (IF INCREMENT_I_FX55_FX65 THEN I + op_vx(Fetched) + 1 ELSE I)

\* C20: Fx55 leaves V0..Vx in memory[I..I+x] and Fx65 leaves memory[I..I+x]
\* in V0..Vx, nothing else in memory or the registers changes, and I ends at
\* its old value with INCREMENT_I_FX55_FX65 off and at I + x + 1 with it on.
C20_BlockCopy ==
    [][ /\ Executes(85) =>
            /\ \A a \in 0..(RamSize - 1) :
                   Peek(RAM', a) = (IF a \in I..(I + op_vx(Fetched))
                                    THEN V[a - I] ELSE Peek(RAM, a))
            /\ V' = V
            /\ BlockIndex
        /\ Executes(101) =>
            /\ \A r \in 0..15 :
                   V'[r] = (IF r <= op_vx(Fetched) THEN Peek(RAM, I + r) ELSE V[r])
            /\ RAM' = RAM
            /\ BlockIndex ]_vars

\* F255 with INCREMENT_I_FX55_FX65 on stored V0..V2 at 0x300 and left I three
\* further.
C20_Witness ==
    /\ FirstOp = 62037 /\ INCREMENT_I_FX55_FX65 /\ num_instr = 1
    /\ init.I = 768 /\ I = 771 /\ init.V[0] = 128
    /\ Peek(RAM, 768) = 128 /\ Peek(RAM, 769) = 144 /\ Peek(RAM, 770) = 160
    /\ Peek(RAM, 771) = 0

\* ------------------------------------------------------------------- Fx1E
\* Fx1E twice in a row, from an index low in memory, at the top of memory
\* and in between.
InitFx1E ==
    \E x \in {1, 15}, v \in ByteSamples, index \in IndexSamples \cup {3840, RamSize - 1} :
        Loaded(Opcode(15, x, 1, 14), << >>, Registers(x, x, v, v, 170), index, Fill(0), FALSE)

SpecIndex == InitFx1E /\ [][Step]_vars

\* C21: Fx1E leaves I = (I + Vx) mod 4096, so I within 0..0xFFF, and VF as
\* it was.
C21_IndexWraps ==
    [][Executes(30) =>
          /\ I' = (I + V[op_vx(Fetched)]) % 4096
          /\ I' \in 0..4095
          /\ V'[15] = V[15] ]_vars

\* ------------------------------------------------------- 8xy1, 8xy2, 8xy3
InitLogic ==
    \E n \in {1, 2, 3}, p \in RegPairs, v \in ByteSamples, w \in ByteSamples :
        Loaded(Opcode(8, p[1], p[2], n), << >>,
               Registers(p[1], p[2], v, w, 170), 0, Fill(0), FALSE)

SpecLogic == InitLogic /\ [][Step]_vars

Executes8xy(n) ==
    /\ Fetched # None /\ op_operation(Fetched) = 8 /\ op_n(Fetched) = n
    /\ num_instr' = num_instr + 1

\* C22: 8xy1, 8xy2 and 8xy3 leave Vx = Vx OR Vy, Vx AND Vy and Vx XOR Vy,
\* and VF = 0 when logic-ops-reset-vf is enabled and VF as it was when it is
\* disabled.  The program has no such setting to read, so its one behaviour
\* is held against each value of it.
C22_LogicOps ==
    [][\A reset_vf \in BOOLEAN :
          LET x == op_vx(Fetched)
              y == op_vy(Fetched)
              flag == IF reset_vf THEN 0 ELSE V[15]
          IN  /\ Executes8xy(1) =>
                  V' = [[V EXCEPT ![x] = BitOr(V[x], V[y])] EXCEPT ![15] = flag]
              /\ Executes8xy(2) =>
                  V' = [[V EXCEPT ![x] = BitAnd(V[x], V[y])] EXCEPT ![15] = flag]
              /\ Executes8xy(3) =>
                  V' = [[V EXCEPT ![x] = BitXor(V[x], V[y])] EXCEPT ![15] = flag] ]_vars

\* The flag of a flag-producing instruction, from the operands as they were
\* before it: the carry of 8xy4, the not-borrow of 8xy5 and 8xy7, the bit
\* shifted out by 8xy6 and 8xyE.
FlagOf(n, vx, vy, shift) ==
    LET source == IF shift THEN vy ELSE vx
    IN  CASE n = 4 -> IF vx + vy > 255 THEN 1 ELSE 0
          [] n = 5 -> IF vx >= vy THEN 1 ELSE 0
          [] n = 7 -> IF vy >= vx THEN 1 ELSE 0
          [] n = 6 -> source % 2
          [] n = 14 -> (source \div 128) % 2

\* C23: 8Fy4, 8Fy5, 8Fy6, 8Fy7 and 8FyE, whose data result and flag both go
\* to VF, leave the flag there, computed from VF and Vy as they were before
\* the instruction.
C23_FlagWrittenLast ==
    (op_operation(FirstOp) = 8 /\ op_n(FirstOp) \in {4, 5, 6, 7, 14}
        /\ FirstX = 15 /\ Executed) =>
        V[15] = FlagOf(op_n(FirstOp), init.V[15], init.V[FirstY], SHIFT_VY_8XY6_8XYE)

\* -------------------------------------------------------- scheduler passes
\* 1202 ; 1204 ; 1206 ; 1208 ; 120A ; 6003 ; F015 ; 00E0 ; 1210 : five jumps,
\* the delay timer set to 3, and the screen cleared by the eighth instruction.
PassProgram == << 4610, 4612, 4614, 4616, 4618, 24579, 61461, 224, 4624 >>

\* main, the five jumps of PassProgram behind it.
InitPass ==
    /\ Entered(Rom(PassProgram), ProgramStart + 10, 5)
    /\ SHIFT_VY_8XY6_8XYE = TRUE /\ INCREMENT_I_FX55_FX65 = TRUE
    /\ init = [V |-> V, I |-> I, vram |-> vram]

SpecPass == InitPass /\ [][Next]_vars

\* C24: one pass of the scheduler loop executes at most one instruction,
\* performs at most one timer decay and presents the display at most once,
\* 00E0 as the instruction on which the periodic presentation falls included.
C24_OnePerPass ==
    [][ /\ num_instr' <= num_instr + 1
        /\ decays' <= 1
        /\ flips' <= 1 ]_vars

\* ------------------------------------------------- a key wait, timers running
\* 6103 ; F115 ; F118 ; F20A ; 1206 : both timers set to 3, then wait for a
\* key into V2, again and again.
WaitProgram == << 24835, 61717, 61720, 61962, 4614 >>

InitWait ==
    /\ Constructed(Rom(WaitProgram))
    /\ SHIFT_VY_8XY6_8XYE = TRUE /\ INCREMENT_I_FX55_FX65 = TRUE
    /\ init = [V |-> V, I |-> I, vram |-> vram]

\* main, its key and timer events arriving only while an Fx0A waits.
NextWait ==
    \/ Advance
    \/ Cycle
    \/ blocking_on_fx0a /\ KeyDown
    \/ blocking_on_fx0a /\ KeyUp
    \/ blocking_on_fx0a /\ TimerEvent

SpecWait == InitWait /\ [][NextWait]_vars

\* C25: while an Fx0A waits, executing it again changes no register, I, the
\* stack, memory or the display; a timer event still lowers a timer that a
\* whole period has passed for; a key-down still makes its key the pressed
\* key and a key-up still leaves no key pressed.
C25_WaitFrame ==
    [][ blocking_on_fx0a =>
          /\ (num_instr' = num_instr + 1 /\ blocking_on_fx0a') =>
                UNCHANGED << V, I, stack, RAM, vram >>
          /\ (now' = now /\ num_instr' = num_instr /\ keys_held' = keys_held) =>
                /\ (delay_register > 0
                      /\ microseconds(now, delay_register_last_tick_time) >= TickMicros)
                     => delay_register' < delay_register
                /\ (sound_register > 0
                      /\ microseconds(now, sound_register_last_tick_time) >= TickMicros)
                     => sound_register' < sound_register
          /\ (keys_held' # keys_held /\ keys_held \subseteq keys_held') =>
                key_pressed' = (IF UNMAPPED \in keys_held' \ keys_held THEN key_pressed
                                ELSE CHOOSE k \in Keys : k \in keys_held' \ keys_held)
          /\ (keys_held' # keys_held /\ keys_held' \subseteq keys_held) =>
                key_pressed' = None ]_vars

\* The wait is on and its Fx0A has been executed twice; meanwhile a timer
\* event lowered both timers and key 0 went down.
C25_Witness ==
    /\ blocking_on_fx0a /\ num_instr = 5 /\ PC = ProgramStart + 6
    /\ delay_register = 1 /\ sound_register = 2
    /\ key_pressed = 0 /\ V[2] = 0 /\ V[1] = 3

\* C26: once a key that went down while an Fx0A waits has been released,
\* whatever other keys went down or up meanwhile, the scheduler's cycles end
\* the wait, leaving the machine not blocking, a key value 0..15 in Vx and
\* PC past the Fx0A.  An Fx0A executed again looks only at what the key
\* events left, so the cycles end the wait if and only if the next one does.
C26_ReleaseEndsWait ==
    [][ (blocking_on_fx0a /\ wait_released # {} /\ Cycle) =>
            /\ ~blocking_on_fx0a'
            /\ V'[op_vx(Fetched)] \in 0..15
            /\ PC' = PC + 2 ]_vars

\* C27: the key an Fx0A writes to Vx went down after its wait began; the
\* release of a key that did not (one held since before the wait) leaves the
\* wait without a released key; and an Fx0A that begins a wait begins it
\* with no tracked and no released key and does not end it in that cycle.
C27_OnlyKeysOfThisWait ==
    [][ /\ (PC' # PC /\ AtFx(10)) => V'[op_vx(Fetched)] \in wait_downs
        /\ (blocking_on_fx0a /\ keys_held' # keys_held /\ keys_held' \subseteq keys_held
               /\ (keys_held \ keys_held') \cap wait_downs = {})
              => (fx0a_key_up' = fx0a_key_up /\ fx0a_key_up \in wait_downs \cup {None})
        /\ (num_instr' = num_instr + 1 /\ ~blocking_on_fx0a /\ AtFx(10))
              => /\ blocking_on_fx0a' /\ PC' = PC /\ V' = V
                 /\ fx0a_key_pressed' = None /\ fx0a_key_up' = None ]_vars

\* An Fx0A waits with key 1 down since the wait began and no key released
\* in it; the key-up that left no key pressed was of key 0, down since
\* before the wait.
C27_Witness ==
    /\ blocking_on_fx0a /\ exc = "None" /\ num_instr >= 2
    /\ keys_held = {1} /\ wait_downs = {1} /\ wait_released = {}
    /\ key_pressed = None /\ fx0a_key_pressed = 1 /\ fx0a_key_up = None

\* C28: an instruction that ends in a fatal error leaves V0..VF, I, PC, the
\* stack, memory and the display as they were before it.
C28_FailsWithoutWrites ==
    [][ (exc = "None" /\ exc' # "None" /\ Fetched # None) =>
            UNCHANGED << V, I, PC, stack, RAM, vram >> ]_vars

\* C29: a timer above 0 has a last-tick timestamp, and no timer event fails
\* for the lack of one.
C29_RunningTimerStamped ==
    /\ delay_register > 0 => delay_register_last_tick_time # None
    /\ sound_register > 0 => sound_register_last_tick_time # None
    /\ exc # "TypeError"

\* The sound timer ran out on a timer event, and the delay timer was set
\* again by the second F015, after timer events had been handled.
C29_Witness ==
    /\ num_instr = 5 /\ PC = ProgramStart + 4
    /\ delay_register = 2 /\ delay_register_last_tick_time = now
    /\ sound_register = 0 /\ sound_register_last_tick_time = None
    /\ sound_set_value = 2 /\ stops_since_set = 1

=============================================================================
